---- MODULE Spec2Model ----
(***************************************************************************)
(* The Prediction page (src/unnamed/part_003): the form state kept by      *)
(* handleInputChange / resetForm, the model selection, and the prediction  *)
(* request issued by handleSubmit through callPredictionAPI with its       *)
(* simulatePrediction fallback.                                            *)
(*                                                                         *)
(* JavaScript strings are sequences of one-character strings, so that      *)
(* parseFloat is computed character by character.  JavaScript numbers are  *)
(* exact decimal fractions [nan, num, den] (value num/den).                *)
(***************************************************************************)
EXTENDS Integers, Sequences, FiniteSets, TLC

VARIABLES formData, prediction, loading, showChart, selectedService,
          specificModel, pending, alert, lastEvent, predictionSource

\* ApiService (src/unnamed/part_000): the authToken item of localStorage,
\* the requests of makeRequest awaiting their response, and what the last
\* step did (history only).
VARIABLES authToken, apiPending, apiEvent

\* The Contact page (src/unnamed/part_002): its useState values, the sends
\* awaiting their result, the timers set and not yet fired, and (history
\* only) the submission that set the status on display, the number of
\* submissions so far and what the last step did.
VARIABLES contactFormData, isSubmitting, submitStatus, sending, timers,
          statusOwner, submissions, contactEvent

predictionVars == <<formData, prediction, loading, showChart, selectedService,
                    specificModel, pending, alert, lastEvent, predictionSource>>

apiVars == <<authToken, apiPending, apiEvent>>

contactVars == <<contactFormData, isSubmitting, submitStatus, sending, timers,
                 statusOwner, submissions, contactEvent>>

vars == <<formData, prediction, loading, showChart, selectedService,
          specificModel, pending, alert, lastEvent, predictionSource,
          apiVars, contactVars>>

(***************************************************************************)
(* JavaScript values                                                       *)
(***************************************************************************)
EmptyStr == << >>
Undefined == <<"undefined">>
StrOne == <<"1">>
StrZero == <<"0">>
StrMinusOne == <<"-", "1">>

NaN == [nan |-> TRUE, num |-> 0, den |-> 1]

Num(n, d) == [nan |-> FALSE, num |-> n, den |-> d]

\* x > n, x < n, x >= n, x <= n, x === n for a number x and an integer n;
\* every comparison with NaN is false.
Gt(x, n) == ~x.nan /\ x.num > n * x.den
Lt(x, n) == ~x.nan /\ x.num < n * x.den
Ge(x, n) == ~x.nan /\ x.num >= n * x.den
Le(x, n) == ~x.nan /\ x.num <= n * x.den
NumEq(x, n) == ~x.nan /\ x.num = n * x.den

DigitChars == <<"0", "1", "2", "3", "4", "5", "6", "7", "8", "9">>

IsDigit(c) == \E d \in DOMAIN DigitChars : DigitChars[d] = c

DigitVal(c) == (CHOOSE d \in DOMAIN DigitChars : DigitChars[d] = c) - 1

RECURSIVE Pow10(_)
Pow10(k) == IF k <= 0 THEN 1 ELSE 10 * Pow10(k - 1)

RECURSIVE SkipWhite(_, _)
SkipWhite(s, i) == IF i <= Len(s) /\ s[i] = " " THEN SkipWhite(s, i + 1) ELSE i

RECURSIVE ScanDigits(_, _)
ScanDigits(s, i) == IF i <= Len(s) /\ IsDigit(s[i]) THEN ScanDigits(s, i + 1) ELSE i

RECURSIVE DigitsValue(_, _, _, _)
DigitsValue(s, i, j, acc) ==
  IF i >= j THEN acc ELSE DigitsValue(s, i + 1, j, acc * 10 + DigitVal(s[i]))

\* mant * 10^shift, negated when neg.
Scaled(neg, mant, shift) ==
  Num((IF neg THEN 0 - 1 ELSE 1) * mant * Pow10(shift), Pow10(0 - shift))

\* The exponent's digits run from xi to xe; without a digit the "e" is not
\* part of the number.
ExponentValue(s, neg, nFrac, mant, xneg, xi, xe) ==
  IF xe > xi
  THEN Scaled(neg, mant,
              (IF xneg THEN 0 - 1 ELSE 1) * DigitsValue(s, xi, xe, 0) - nFrac)
  ELSE Scaled(neg, mant, 0 - nFrac)

\* The mantissa ends before position fe: NaN when it holds no digit, else
\* an optional e[sign]digits follows.
ParseExponent(s, neg, nDigits, nFrac, mant, fe) ==
  IF nDigits = 0 THEN NaN
  ELSE IF fe <= Len(s) /\ s[fe] \in {"e", "E"}
       THEN ExponentValue(s, neg, nFrac, mant,
                          fe + 1 <= Len(s) /\ s[fe + 1] = "-",
                          IF fe + 1 <= Len(s) /\ s[fe + 1] \in {"+", "-"}
                          THEN fe + 2 ELSE fe + 1,
                          ScanDigits(s, IF fe + 1 <= Len(s) /\ s[fe + 1] \in {"+", "-"}
                                        THEN fe + 2 ELSE fe + 1))
       ELSE Scaled(neg, mant, 0 - nFrac)

\* Integer digits from i to ie, a "." at ie, fraction digits up to fe.
ParseFraction(s, neg, i, ie, fe) ==
  ParseExponent(s, neg, (ie - i) + (fe - (ie + 1)), fe - (ie + 1),
                DigitsValue(s, ie + 1, fe, DigitsValue(s, i, ie, 0)), fe)

\* Integer digits from i to ie, then an optional fraction.
ParseMantissa(s, neg, i, ie) ==
  IF ie <= Len(s) /\ s[ie] = "."
  THEN ParseFraction(s, neg, i, ie, ScanDigits(s, ie + 1))
  ELSE ParseExponent(s, neg, ie - i, 0, DigitsValue(s, i, ie, 0), ie)

\* An optional sign at b, the digits after it.
ParseSigned(s, b) ==
  IF b <= Len(s) /\ s[b] \in {"+", "-"}
  THEN ParseMantissa(s, s[b] = "-", b + 1, ScanDigits(s, b + 1))
  ELSE ParseMantissa(s, FALSE, b, ScanDigits(s, b))

\* parseFloat: leading blanks, an optional sign, the longest prefix
\* digits[.digits][e[sign]digits]; NaN when that prefix holds no digit.
parseFloat(s) == ParseSigned(s, SkipWhite(s, 1))

\* obj[key] of a JavaScript object: undefined when the key is absent.
Get(obj, key) == IF key \in DOMAIN obj THEN obj[key] ELSE Undefined

(***************************************************************************)
(* The form                                                                *)
(***************************************************************************)
EmptyForm ==
  [creditShort |-> EmptyStr, creditLong |-> EmptyStr, timeLimitation |-> EmptyStr,
   cph |-> EmptyStr, ctl |-> EmptyStr, aph |-> EmptyStr, atl |-> EmptyStr,
   quarterFluctuation |-> EmptyStr, resultantFluctuation |-> EmptyStr]

\* The fields whose element has onChange={handleInputChange}.
InputNames == {"creditShort", "cph", "ctl", "aph", "atl", "quarterFluctuation"}

NoAlert == "none"
AlertAphAtl == "Please enter a value between -10 and 1.0"
AlertQuarter == "Please enter a value between -8 and 8 for Quarterly Fluctuation"
AlertSelectModel == "Please select one of the four AI models"
AlertFailed == "Prediction failed. Please try again."

\* Variant of InvalidDiscrete that tests the numeric range instead of the
\* three literals.
InvalidDiscrete_Numeric(value) ==
  value # EmptyStr /\ (Gt(parseFloat(value), 1) \/ Lt(parseFloat(value), -1))

\* value !== '' && !['1', '0', '-1'].includes(value)
InvalidDiscrete(value) ==
  value # EmptyStr /\ value \notin {StrOne, StrZero, StrMinusOne}

\* Variant of OutOfRangeAphAtl with >= and <= (endpoints refused).
OutOfRangeAphAtl_Strict(value) ==
  value # EmptyStr /\ (Ge(parseFloat(value), 1) \/ Le(parseFloat(value), -10))

\* value !== '' && (parseFloat(value) > 1 || parseFloat(value) < -10)
OutOfRangeAphAtl(value) ==
  value # EmptyStr /\ (Gt(parseFloat(value), 1) \/ Lt(parseFloat(value), -10))

\* value !== '' && (parseFloat(value) > 8 || parseFloat(value) < -8)
OutOfRangeQuarter(value) ==
  value # EmptyStr /\ (Gt(parseFloat(value), 8) \/ Lt(parseFloat(value), -8))

\* Variant of calculatedValue with the upper threshold off by one
\* comparison (3 derives "1").
calculatedValue_Off(fluctuation) ==
  IF Lt(fluctuation, 0) THEN StrMinusOne
  ELSE IF Ge(fluctuation, 0) /\ Lt(fluctuation, 3) THEN StrZero
  ELSE IF Ge(fluctuation, 3) THEN StrOne
  ELSE Undefined

\* The if / else-if chain on fluctuation; calculatedValue stays undefined
\* when no branch is taken.
calculatedValue(fluctuation) ==
  IF Lt(fluctuation, 0) THEN StrMinusOne
  ELSE IF Ge(fluctuation, 0) /\ Le(fluctuation, 3) THEN StrZero
  ELSE IF Gt(fluctuation, 3) THEN StrOne
  ELSE Undefined

\* handleInputChange as a function of the form and the event: the form it
\* passes to setFormData (the unchanged form on an early return) and the
\* alert it raises.
handleInputChange(fd, name, value) ==
  LET keep(msg) == [formData |-> fd, alert |-> msg, accepted |-> FALSE]
      set(upd) == [formData |-> [upd EXCEPT ![name] = value], alert |-> NoAlert,
                   accepted |-> TRUE]
  IN  CASE name \in {"cph", "ctl"} ->
             IF InvalidDiscrete(value) THEN keep(NoAlert) ELSE set(fd)
        [] name \in {"aph", "atl"} ->
             IF OutOfRangeAphAtl(value) THEN keep(AlertAphAtl) ELSE set(fd)
        [] name = "creditShort" ->
             IF InvalidDiscrete(value) THEN keep(NoAlert) ELSE set(fd)
        [] name = "quarterFluctuation" ->
             IF OutOfRangeQuarter(value) THEN keep(AlertQuarter)
             ELSE IF value # EmptyStr
                  THEN set([fd EXCEPT
                              !.creditLong = calculatedValue(parseFloat(value)),
                              !.resultantFluctuation = calculatedValue(parseFloat(value))])
                  ELSE set([fd EXCEPT !.creditLong = EmptyStr,
                                      !.resultantFluctuation = EmptyStr])
        [] OTHER -> set(fd)

\* if (!value) return ''; the label shown under a field.
getStatusIndicator(fieldName, value) ==
  LET numValue == parseFloat(value)
  IN  IF value = EmptyStr \/ value = Undefined THEN ""
      ELSE CASE fieldName \in {"cph", "ctl", "creditShort"} ->
                  IF value = StrOne THEN "Good"
                  ELSE IF value = StrZero THEN "Normal"
                  ELSE IF value = StrMinusOne THEN "Poor" ELSE ""
             [] fieldName \in {"aph", "atl"} ->
                  IF NumEq(numValue, 1) THEN "Good"
                  ELSE IF Ge(numValue, 0) /\ Lt(numValue, 1) THEN "Normal"
                  ELSE IF Lt(numValue, 0) THEN "Poor" ELSE ""
             [] fieldName = "creditLong" ->
                  IF value = StrOne THEN "Good (Fluctuation > 3)"
                  ELSE IF value = StrZero THEN "Normal (Fluctuation 0-3)"
                  ELSE IF value = StrMinusOne THEN "Poor (Fluctuation < 0)" ELSE ""
             [] fieldName = "resultantFluctuation" ->
                  IF value = StrOne THEN "Good (Quarterly > 3)"
                  ELSE IF value = StrZero THEN "Normal (Quarterly 0-3)"
                  ELSE IF value = StrMinusOne THEN "Poor (Quarterly < 0)" ELSE ""
             [] fieldName = "quarterFluctuation" ->
                  IF Gt(numValue, 3) THEN "Good (Credit-Long = 1)"
                  ELSE IF Ge(numValue, 0) /\ Le(numValue, 3) THEN "Normal (Credit-Long = 0)"
                  ELSE IF Lt(numValue, 0) THEN "Poor (Credit-Long = -1)" ELSE ""
             [] OTHER -> ""

(***************************************************************************)
(* Model selection and the prediction request                              *)
(***************************************************************************)
Null == [null |-> TRUE]
NullModel == "null"

ModelIds == {"xgboost", "random_forest", "logistic", "knn"}

\* Variant of ModelService that files every model under loan.
ModelService_AllLoan(model) == "loan"

\* The service field of each entry of the model list.

ModelService(model) ==
  CASE model = "xgboost" -> "loan"
    [] model = "random_forest" -> "loan"
    [] model = "logistic" -> "classification"
    [] model = "knn" -> "classification"

\* useState({loan: [...], classification: [...]})
selectedModels ==
  [loan |-> <<"xgboost", "random_forest">>, classification |-> <<"knn", "logistic">>]

\* What an async handleSubmit keeps of the render it was called in.
Closure == [formData |-> formData, selectedService |-> selectedService,
            specificModel |-> specificModel, cancelled |-> FALSE]

\* JSON body of the POST: {...formData, serviceType, selectedModels}.
RequestBody(c) ==
  [formData |-> c.formData,
   serviceType |-> c.selectedService,
   selectedModels |-> IF c.specificModel # NullModel THEN <<c.specificModel>>
                      ELSE selectedModels[c.selectedService]]

\* How a fetch can end: an OK response with a JSON body, a response with an
\* error status, a rejected fetch, an OK response whose body is not JSON.
Outcomes == {"ok", "http_error", "network_error", "invalid_json"}

\* Response bodies of the documented shape of POST /api/predict.
ApiResponses ==
  { [prediction |-> "Very_Good", confidence |-> Num(945, 10),
     loan_range |-> "$50,000 - $200,000",
     model_predictions |-> [xgboost |-> [prediction |-> "Very_Good", confidence |-> Num(965, 10)]],
     processing_time_ms |-> Num(150, 1)],
    [prediction |-> "Very_Bad", confidence |-> Num(652, 10),
     loan_range |-> "Not eligible",
     model_predictions |-> [knn |-> [prediction |-> "Very_Bad", confidence |-> Num(652, 10)]],
     processing_time_ms |-> Num(150, 1)] }

\* The example response of POST /api/predict as the README prints it, for
\* the request selecting xgboost and random_forest.
ReadmeResponse ==
  [prediction |-> "Very_Good", confidence |-> Num(945, 10),
   loan_range |-> "$50,000 - $200,000",
   model_predictions |->
     [xgboost |-> [prediction |-> "Very_Good", confidence |-> Num(965, 10)],
      random_forest |-> [prediction |-> "Very_Good", confidence |-> Num(935, 10)]],
   processing_time_ms |-> Num(150, 1)]

\* Values Math.random() can return, in [0, 1).
RandomDraws == {Num(0, 1), Num(999, 1000)}

\* The body read from a response and the random value drawn, by how the
\* fetch ends: only an OK response has its body read, only the fallback
\* calls Math.random().
BodiesOf(outcome) == IF outcome = "ok" THEN ApiResponses ELSE {[error |-> TRUE]}

DrawsOf(outcome) == IF outcome = "ok" THEN {Num(0, 1)} ELSE RandomDraws

RECURSIVE NatToStr(_)
NatToStr(n) ==
  IF n < 10 THEN <<DigitChars[n + 1]>>
  ELSE NatToStr(n \div 10) \o <<DigitChars[(n % 10) + 1]>>

\* Variant of toFixed1 that keeps two decimal places.
toFixed1_TwoPlaces(x) ==
  LET hundredths == (200 * x.num + x.den) \div (2 * x.den)
  IN  NatToStr(hundredths \div 100) \o <<".">> \o NatToStr((hundredths % 100) \div 10)
        \o NatToStr(hundredths % 10)

\* x.toFixed(1) for x >= 0: rounded to the nearest tenth.
toFixed1(x) ==
  LET tenths == (20 * x.num + x.den) \div (2 * x.den)
  IN  NatToStr(tenths \div 10) \o <<".">> \o NatToStr(tenths % 10)

\* parseFloat(s) || 0
OrZero(x) == IF x.nan \/ x.num = 0 THEN Num(0, 1) ELSE x

\* x > n/d
GtFrac(x, n, d) == ~x.nan /\ x.num * d > n * x.den

\* base + Math.random() * span
Affine(base, r, span) == Num(base * r.den + r.num * span, r.den)

\* Variant of simulatedLoanRange with the ranges of Normal and Very_Good
\* exchanged.
simulatedLoanRange_Swapped(score) ==
  IF score >= 80 THEN "$10,000 - $50,000"
  ELSE IF score >= 50 THEN "$50,000 - $200,000"
  ELSE "Not eligible"

\* loanRange as assigned in the three branches on score.
simulatedLoanRange(score) ==
  IF score >= 80 THEN "$50,000 - $200,000"
  ELSE IF score >= 50 THEN "$10,000 - $50,000"
  ELSE "Not eligible"

\* result as assigned in the three branches on score.
simulatedResult(score) ==
  IF score >= 80 THEN "Very_Good"
  ELSE IF score >= 50 THEN "Normal" ELSE "Very_Bad"

\* confidence as assigned in the three branches on score, before toFixed.
simulatedConfidence(score, r) ==
  IF score >= 80 THEN Affine(92, r, 6)
  ELSE IF score >= 50 THEN Affine(75, r, 15)
  ELSE Affine(60, r, 20)

\* Variant of simulatedScore that compares the credit fields with 0, the
\* scale of the form's values, instead of 650.
simulatedScore_UnitScale(fd) ==
    (IF Gt(OrZero(parseFloat(Get(fd, "creditShort"))), 0) THEN 30 ELSE 0)
  + (IF Gt(OrZero(parseFloat(Get(fd, "creditLong"))), 0) THEN 30 ELSE 0)
  + (IF Get(fd, "paymentHistory") = <<"excellent">> THEN 25 ELSE 0)
  + (IF GtFrac(parseFloat(Get(fd, "cph")), 7, 10) THEN 15 ELSE 0)

\* score after the four tests.
simulatedScore(fd) ==
    (IF Gt(OrZero(parseFloat(Get(fd, "creditShort"))), 650) THEN 30 ELSE 0)
  + (IF Gt(OrZero(parseFloat(Get(fd, "creditLong"))), 650) THEN 30 ELSE 0)
  + (IF Get(fd, "paymentHistory") = <<"excellent">> THEN 25 ELSE 0)
  + (IF GtFrac(parseFloat(Get(fd, "cph")), 7, 10) THEN 15 ELSE 0)

simulatedFactors(fd) ==
  [creditScore |-> IF Gt(OrZero(parseFloat(Get(fd, "creditShort"))), 650)
                   THEN "Positive" ELSE "Needs Improvement",
   paymentHistory |-> IF Get(fd, "paymentHistory") = <<"excellent">>
                      THEN "Excellent" ELSE "Needs Improvement",
   debtRatio |-> IF GtFrac(parseFloat(Get(fd, "cph")), 7, 10)
                 THEN "Good" ELSE "High Risk"]

simulatedOutcome(fd, score, r) ==
  [prediction |-> simulatedResult(score),
   confidence |-> toFixed1(simulatedConfidence(score, r)),
   loanRange |-> simulatedLoanRange(score),
   factors |-> simulatedFactors(fd)]

simulatePrediction(fd, r) == simulatedOutcome(fd, simulatedScore(fd), r)

\* PredictionChart: parseFloat(prediction.confidence) and its complement
\* to 100.  The confidence is a string when simulatePrediction built the
\* result (source "fallback") and a number when the API response did.
confidenceData(p, source) ==
  LET value == IF source = "fallback" THEN parseFloat(p.confidence) ELSE p.confidence
  IN  [Confidence |-> value,
       Uncertainty |-> IF value.nan THEN NaN
                       ELSE Num(100 * value.den - value.num, value.den)]

\* The object built from the response body on the success path.
ApiResult(data) ==
  [prediction |-> Get(data, "prediction"),
   confidence |-> Get(data, "confidence"),
   loanRange |-> Get(data, "loan_range"),
   factors |-> Get(data, "factors"),
   modelPredictions |-> Get(data, "model_predictions"),
   processingTime |-> Get(data, "processing_time_ms")]

\* Variant of callPredictionAPI whose catch block rethrows when the
\* response had an error status.
callPredictionAPI_Rethrow(c, outcome, data, r) ==
  IF outcome = "ok"
  THEN [rejected |-> FALSE, path |-> "api", value |-> ApiResult(data)]
  ELSE [rejected |-> outcome = "http_error", path |-> "fallback",
        value |-> simulatePrediction(c.formData, r)]

\* callPredictionAPI once the fetch has ended: the try block returns the
\* API result; !response.ok, a rejected fetch and a rejected response.json()
\* all land in the catch block, which returns simulatePrediction().
\* rejected: whether the promise rejects; path: which branch built the value.
callPredictionAPI(c, outcome, data, r) ==
  IF outcome = "ok"
  THEN [rejected |-> FALSE, path |-> "api", value |-> ApiResult(data)]
  ELSE [rejected |-> FALSE, path |-> "fallback",
        value |-> simulatePrediction(c.formData, r)]

(***************************************************************************)
(* The decision engine behind POST /api/predict (backend/, specification   *)
(* sections 4.3 to 4.6): model invocation, aggregation, range mapping      *)
(***************************************************************************)
Labels == {"Very_Good", "Normal", "Very_Bad"}

\* The accuracy field of each entry of the model list, in tenths of a
\* percent.
ModelAccuracy ==
  [xgboost |-> 945, random_forest |-> 921, logistic |-> 873, knn |-> 857]

\* The order in which the aggregator prefers models when label counts tie.
TieBreakOrder == <<"xgboost", "random_forest", "logistic", "knn">>

mapRange(label) ==
  CASE label = "Very_Good" -> "$50,000 - $200,000"
    [] label = "Normal" -> "$10,000 - $50,000"
    [] label = "Very_Bad" -> "Not eligible"

\* The outcome of one model's invoke: a verdict, or a failure.
Verdict(label, confidence) ==
  [failed |-> FALSE, prediction |-> label, confidence |-> confidence]

InvocationFailure == [failed |-> TRUE, prediction |-> "", confidence |-> Num(0, 1)]

\* Variant of invokeAll that keeps a failed model with a zero verdict.
invokeAll_ZeroFill(invocations) ==
  [m \in DOMAIN invocations |->
     IF invocations[m].failed
     THEN [prediction |-> "Very_Bad", confidence |-> Num(0, 1)]
     ELSE [prediction |-> invocations[m].prediction,
           confidence |-> invocations[m].confidence]]

\* invokeAll: the verdicts of the models whose invoke did not fail; a
\* failed model has no entry.
invokeAll(invocations) ==
  [m \in {k \in DOMAIN invocations : ~invocations[k].failed} |->
     [prediction |-> invocations[m].prediction,
      confidence |-> invocations[m].confidence]]

agreeing(verdicts, label) == {m \in DOMAIN verdicts : verdicts[m].prediction = label}

\* label is a most frequent label of verdicts.
isMode(verdicts, label) ==
  /\ agreeing(verdicts, label) # {}
  /\ \A other \in Labels :
       Cardinality(agreeing(verdicts, other)) <= Cardinality(agreeing(verdicts, label))

\* Variant of tieBreak that prefers the models in the reverse order.
RECURSIVE tieBreak_Reversed(_, _)
tieBreak_Reversed(verdicts, i) ==
  LET m == TieBreakOrder[Len(TieBreakOrder) + 1 - i]
  IN  IF m \in DOMAIN verdicts /\ isMode(verdicts, verdicts[m].prediction)
      THEN verdicts[m].prediction
      ELSE tieBreak_Reversed(verdicts, i + 1)

\* The most frequent label; among several, the one given by the model that
\* comes first in TieBreakOrder from position i on.
RECURSIVE tieBreak(_, _)
tieBreak(verdicts, i) ==
  LET m == TieBreakOrder[i]
  IN  IF m \in DOMAIN verdicts /\ isMode(verdicts, verdicts[m].prediction)
      THEN verdicts[m].prediction
      ELSE tieBreak(verdicts, i + 1)

\* A confidence in tenths of a percent, rounded to the nearest tenth.
tenths(x) == (20 * x.num + x.den) \div (2 * x.den)

RECURSIVE sumTenths(_, _)
sumTenths(verdicts, models) ==
  IF models = {} THEN 0
  ELSE LET m == CHOOSE k \in models : TRUE
       IN  tenths(verdicts[m].confidence) + sumTenths(verdicts, models \ {m})

clamp(t) == IF t < 0 THEN 0 ELSE IF t > 1000 THEN 1000 ELSE t

\* The mean of the confidences of models, clamped to [0, 100] and rounded
\* to one decimal place.
meanConfidence(verdicts, models) ==
  Num(clamp((2 * sumTenths(verdicts, models) + Cardinality(models))
              \div (2 * Cardinality(models))), 10)

aggregated(verdicts, label) ==
  [label |-> label, confidence |-> meanConfidence(verdicts, agreeing(verdicts, label))]

\* aggregate: one verdict passes through unchanged; several give the most
\* frequent label and the mean confidence of the verdicts that carry it.
aggregate(verdicts) ==
  IF Cardinality(DOMAIN verdicts) = 1
  THEN [label |-> verdicts[CHOOSE m \in DOMAIN verdicts : TRUE].prediction,
        confidence |-> verdicts[CHOOSE m \in DOMAIN verdicts : TRUE].confidence]
  ELSE aggregated(verdicts, tieBreak(verdicts, 1))

EnsembleVerdict(verdicts, agg) ==
  [prediction |-> agg.label,
   confidence |-> agg.confidence,
   loan_range |-> mapRange(agg.label),
   model_predictions |-> verdicts,
   processing_time_ms |-> Num(150, 1)]

decided(verdicts) ==
  IF DOMAIN verdicts = {} THEN [error |-> "AllModelsFailed"]
  ELSE EnsembleVerdict(verdicts, aggregate(verdicts))

\* decide after validation: invoke the selected models, aggregate the
\* verdicts of those that did not fail, map the range.
decide(invocations) == decided(invokeAll(invocations))

(***************************************************************************)
(* Bounds and input sets                                                   *)
(***************************************************************************)
\* Requests that may be awaiting their response at the same time.
MaxInFlight == 1

\* Values offered to handleInputChange when the handler is examined on its
\* own (FormSpec): the permitted values, the interval endpoints, values
\* just outside, other spellings, and text that is no number.
RawValues(name) ==
  CASE name = "creditShort" ->
         {EmptyStr, StrOne, StrZero, StrMinusOne, <<"2">>, <<"1", ".", "0">>}
    [] name \in {"cph", "ctl"} ->
         {EmptyStr, StrOne, StrZero, StrMinusOne, <<"2">>}
    [] name = "aph" ->
         {EmptyStr, <<"1", ".", "0">>, <<"1", ".", "0", "1">>,
          <<"-", "1", "0", ".", "0">>, <<"-", "1", "0", ".", "0", "1">>,
          <<"1", "e", "1">>}
    [] name = "atl" ->
         {EmptyStr, <<"1">>, <<"2">>}
    [] name = "quarterFluctuation" ->
         {EmptyStr, <<"-", "8", ".", "0", "1">>, <<"-", "8">>, <<"-", "0", ".", "5">>,
          <<"0">>, <<"3">>, <<"3", ".", "0", "1">>, <<"8">>,
          <<"8", ".", "0", "1">>, <<"a", "b", "c">>}

\* Input events of the whole page (Spec).  Every request awaiting its
\* response carries a copy of the form, so the page is explored with few
\* form values.
PageValues(name) ==
  CASE name = "creditShort" -> {StrOne}
    [] name = "quarterFluctuation" -> {<<"5">>, <<"9">>}
    [] OTHER -> {}

(***************************************************************************)
(* ApiService (src/unnamed/part_000): the token store                      *)
(***************************************************************************)
\* localStorage.getItem of a key that has no item.
JsNull == <<"null">>

\* if (v), !!v for a string, undefined or null.
truthy(v) == v \notin {EmptyStr, Undefined, JsNull}

\* The methods of ApiService that call makeRequest; all but login do
\* nothing else.
ApiMethods == {"login", "predictLoan", "healthCheck"}

\* How a request of makeRequest can end: handleApiResponse returns the
\* body of an OK response, and throws on an error status or a body that is
\* not JSON; fetch itself rejects on a network error.
ApiOutcomes == {"ok", "http_error", "network_error", "invalid_json"}

\* The token property of the body of a login response: absent, empty, or a
\* token.
ResponseTokens == {Undefined, EmptyStr, <<"a">>, <<"b">>}

\* Requests of makeRequest that may await their response at the same time.
MaxApiPending == 2

\* The text before the token in `Bearer ${token}`.
Bearer == <<"B", "e", "a", "r", "e", "r", " ">>

\* makeRequest: config.headers.Authorization, set only if (token).
Authorization(token) ==
  IF truthy(token) THEN Bearer \o token ELSE Undefined

\* Variant of tokenAfterLogin without the test of response.token: setItem
\* stores the string form of whatever the response holds.
tokenAfterLogin_Unchecked(stored, token) ==
  IF token = Undefined THEN <<"u", "n", "d", "e", "f", "i", "n", "e", "d">> ELSE token

\* login after makeRequest has resolved: setItem only if (response.token).
tokenAfterLogin(stored, token) == IF truthy(token) THEN token ELSE stored

\* isAuthenticated(): !!localStorage.getItem('authToken').
isAuthenticated == truthy(authToken)

ApiEvent(op, method, outcome, token, authorization) ==
  [op |-> op, method |-> method, outcome |-> outcome, token |-> token,
   authorization |-> authorization]

ApiInit ==
  /\ authToken = JsNull
  /\ apiPending = << >>
  /\ apiEvent = ApiEvent("init", "", "", Undefined, Undefined)

\* A method of ApiService calls makeRequest: the token is read and the
\* header built before the fetch is issued.
ApiCall(method) ==
  /\ Len(apiPending) < MaxApiPending
  /\ apiPending' = Append(apiPending,
                          [method |-> method, authorization |-> Authorization(authToken)])
  /\ apiEvent' = ApiEvent("call", method, "", Undefined, Authorization(authToken))
  /\ UNCHANGED <<authToken, predictionVars, contactVars>>

\* Request i ends.  makeRequest rejects unless the response was OK with a
\* JSON body; login stores the token of a resolved response.
ApiSettle(i, outcome, token) ==
  /\ apiPending' = [j \in 1..(Len(apiPending) - 1) |->
                      IF j < i THEN apiPending[j] ELSE apiPending[j + 1]]
  /\ authToken' = IF apiPending[i].method = "login" /\ outcome = "ok"
                  THEN tokenAfterLogin(authToken, token)
                  ELSE authToken
  /\ apiEvent' = ApiEvent("settle", apiPending[i].method, outcome,
                          IF outcome = "ok" THEN token ELSE Undefined,
                          apiPending[i].authorization)
  /\ UNCHANGED <<predictionVars, contactVars>>

\* logout(): localStorage.removeItem('authToken').
ApiLogout ==
  /\ authToken' = JsNull
  /\ apiEvent' = ApiEvent("logout", "", "", Undefined, Undefined)
  /\ UNCHANGED <<apiPending, predictionVars, contactVars>>

ApiNext ==
  \/ \E method \in ApiMethods : ApiCall(method)
  \/ \E i \in DOMAIN apiPending : \E outcome \in ApiOutcomes :
       \E token \in (IF outcome = "ok" THEN ResponseTokens ELSE {Undefined}) :
         ApiSettle(i, outcome, token)
  \/ ApiLogout

(***************************************************************************)
(* Contact page (src/unnamed/part_002, src/src/config/email.js)            *)
(***************************************************************************)
ContactFields == {"name", "email", "subject", "message"}

\* Text typed into a field of the contact form.
ContactValues == {EmptyStr, <<"x">>}

EmptyContactForm == [f \in ContactFields |-> EmptyStr]

\* SETTINGS.AUTO_CLEAR_FORM of email.js.
AUTO_CLEAR_FORM == TRUE

\* submitStatus before any submission and after a status timer has fired.
NoStatus == "null"

\* How emailjs.send can end: it resolves, or it rejects.
SendOutcomes == {"success", "error"}

\* Submissions of the contact form in one behaviour.
MaxSubmissions == 3

ContactEvent(op, id, cleared) == [op |-> op, id |-> id, cleared |-> cleared]

\* submissions numbers the submissions; statusOwner is the submission whose
\* handler set the status on display; timers holds, oldest first, the
\* submission that started each status timer that has not fired yet.
ContactInit ==
  /\ contactFormData = EmptyContactForm
  /\ isSubmitting = FALSE
  /\ submitStatus = NoStatus
  /\ sending = << >>
  /\ timers = << >>
  /\ statusOwner = 0
  /\ submissions = 0
  /\ contactEvent = ContactEvent("init", 0, NoStatus)

\* handleInputChange of the contact form.
ContactInputChange(name, value) ==
  /\ contactFormData' = [contactFormData EXCEPT ![name] = value]
  /\ contactEvent' = ContactEvent("input", 0, NoStatus)
  /\ UNCHANGED <<isSubmitting, submitStatus, sending, timers, statusOwner,
                 submissions, predictionVars, apiVars>>

\* finally: setTimeout(() => setSubmitStatus(null), STATUS_DISPLAY_TIME).
\* Every timer has the same delay, so timers fire in the order they were
\* started; none is ever cancelled.
statusTimer(ts, id) == Append(ts, id)

\* handleSubmit up to the await of emailjs.send.  The form is submitted by
\* its button, which is disabled while isSubmitting.  DEV_MODE is false and
\* the configured ids are not the placeholders, so the send is issued.
ContactSubmit ==
  /\ ~isSubmitting
  /\ submissions < MaxSubmissions
  /\ submissions' = submissions + 1
  /\ isSubmitting' = TRUE
  /\ sending' = Append(sending, submissions + 1)
  /\ contactEvent' = ContactEvent("submit", submissions + 1, NoStatus)
  /\ UNCHANGED <<contactFormData, submitStatus, timers, statusOwner,
                 predictionVars, apiVars>>

\* handleSubmit after the await: the status of the outcome, the form
\* emptied after a success, then the finally block.
ContactSettle(outcome) ==
  /\ sending # << >>
  /\ sending' = Tail(sending)
  /\ submitStatus' = outcome
  /\ statusOwner' = Head(sending)
  /\ contactFormData' = IF outcome = "success" /\ AUTO_CLEAR_FORM
                        THEN EmptyContactForm ELSE contactFormData
  /\ isSubmitting' = FALSE
  /\ timers' = statusTimer(timers, Head(sending))
  /\ contactEvent' = ContactEvent("settle", Head(sending), NoStatus)
  /\ UNCHANGED <<submissions, predictionVars, apiVars>>

\* The oldest status timer fires: setSubmitStatus(null).  The event keeps
\* the status it cleared.
ContactTimerFires ==
  /\ timers # << >>
  /\ timers' = Tail(timers)
  /\ submitStatus' = NoStatus
  /\ contactEvent' = ContactEvent("timer", Head(timers), submitStatus)
  /\ UNCHANGED <<contactFormData, isSubmitting, sending, statusOwner,
                 submissions, predictionVars, apiVars>>

ContactNext ==
  \/ \E name \in ContactFields : \E value \in ContactValues :
       ContactInputChange(name, value)
  \/ ContactSubmit
  \/ \E outcome \in SendOutcomes : ContactSettle(outcome)
  \/ ContactTimerFires

(***************************************************************************)
(* State machine                                                           *)
(***************************************************************************)
\* What the last step did (history only; the page does not read it).
Event(op, name, value, outcome, path, cancelled) ==
  [op |-> op, name |-> name, value |-> value, outcome |-> outcome,
   path |-> path, cancelled |-> cancelled]

Init ==
  /\ ApiInit
  /\ ContactInit
  /\ formData = EmptyForm
  /\ prediction = Null
  /\ loading = FALSE
  /\ showChart = FALSE
  /\ selectedService = "loan"
  /\ specificModel = NullModel
  /\ pending = << >>
  /\ alert = NoAlert
  /\ lastEvent = Event("init", "", EmptyStr, "", "", FALSE)
  /\ predictionSource = "none"

HandleInputChange(name, value) ==
  LET r == handleInputChange(formData, name, value)
  IN  /\ formData' = r.formData
      /\ alert' = r.alert
      /\ lastEvent' = Event("input", name, value,
                            IF r.accepted THEN "accepted" ELSE "rejected", "", FALSE)
      /\ UNCHANGED <<apiVars, contactVars, prediction, loading, showChart, selectedService,
                     specificModel, pending, predictionSource>>

\* Variant of SelectModel that also empties the form.
SelectModel_EmptiesForm(model) ==
  /\ specificModel' = model
  /\ selectedService' = ModelService(model)
  /\ prediction' = Null
  /\ showChart' = FALSE
  /\ predictionSource' = "none"
  /\ pending' = [i \in DOMAIN pending |->
                   IF pending[i].specificModel # model
                   THEN [pending[i] EXCEPT !.cancelled = TRUE] ELSE pending[i]]
  /\ alert' = NoAlert
  /\ lastEvent' = Event("select", model, EmptyStr, "", "", FALSE)
  /\ formData' = EmptyForm
  /\ UNCHANGED <<apiVars, contactVars, loading>>

\* onClick of a model button.  A request awaiting its response is marked
\* cancelled (history only) when another model is chosen.
SelectModel(model) ==
  /\ specificModel' = model
  /\ selectedService' = ModelService(model)
  /\ prediction' = Null
  /\ showChart' = FALSE
  /\ predictionSource' = "none"
  /\ pending' = [i \in DOMAIN pending |->
                   IF pending[i].specificModel # model
                   THEN [pending[i] EXCEPT !.cancelled = TRUE] ELSE pending[i]]
  /\ alert' = NoAlert
  /\ lastEvent' = Event("select", model, EmptyStr, "", "", FALSE)
  /\ UNCHANGED <<apiVars, contactVars, formData, loading>>

\* Variant of HandleSubmit without the early return when no model is
\* selected.
HandleSubmit_NoModelCheck ==
  /\ Len(pending) < MaxInFlight
  /\ loading' = TRUE
  /\ pending' = Append(pending, Closure)
  /\ alert' = NoAlert
  /\ lastEvent' = Event("submit", "", EmptyStr, "sent", "", FALSE)
  /\ UNCHANGED <<apiVars, contactVars, formData, prediction, showChart, selectedService,
                 specificModel, predictionSource>>

\* handleSubmit up to its await: the early return without a model, else
\* setLoading(true) and the fetch of callPredictionAPI.  No more than limit
\* requests are followed while they await their response.
submit(limit) ==
  IF specificModel = NullModel
  THEN /\ alert' = AlertSelectModel
       /\ lastEvent' = Event("submit", "", EmptyStr, "refused", "", FALSE)
       /\ UNCHANGED <<apiVars, contactVars, formData, prediction, loading, showChart, selectedService,
                      specificModel, pending, predictionSource>>
  ELSE /\ Len(pending) < limit
       /\ loading' = TRUE
       /\ pending' = Append(pending, Closure)
       /\ alert' = NoAlert
       /\ lastEvent' = Event("submit", "", EmptyStr, "sent", "", FALSE)
       /\ UNCHANGED <<apiVars, contactVars, formData, prediction, showChart, selectedService,
                      specificModel, predictionSource>>

\* handleSubmit called directly (the form's onSubmit).
HandleSubmit == submit(MaxInFlight)

\* Variant of Complete that sends the request again when the fetch was
\* rejected.
Complete_Retry(i, outcome, data, r) ==
  LET c == pending[i]
      res == callPredictionAPI(c, outcome, data, r)
  IN  IF outcome = "network_error"
      THEN /\ pending' = pending
           /\ alert' = NoAlert
           /\ lastEvent' = Event("complete", c.specificModel, EmptyStr, outcome,
                                 res.path, c.cancelled)
           /\ UNCHANGED <<apiVars, contactVars, formData, prediction, loading, showChart,
                          selectedService, specificModel, predictionSource>>
      ELSE /\ pending' = [j \in 1..(Len(pending) - 1) |->
                            IF j < i THEN pending[j] ELSE pending[j + 1]]
           /\ prediction' = res.value
           /\ showChart' = TRUE
           /\ predictionSource' = res.path
           /\ alert' = NoAlert
           /\ loading' = FALSE
           /\ lastEvent' = Event("complete", c.specificModel, EmptyStr, outcome,
                                 res.path, c.cancelled)
           /\ UNCHANGED <<apiVars, contactVars, formData, selectedService, specificModel>>

\* Variant of Complete that calls setLoading(false) after an OK response
\* only.
Complete_LoadingStuck(i, outcome, data, r) ==
  LET c == pending[i]
      res == callPredictionAPI(c, outcome, data, r)
  IN  /\ pending' = [j \in 1..(Len(pending) - 1) |->
                       IF j < i THEN pending[j] ELSE pending[j + 1]]
      /\ prediction' = res.value
      /\ showChart' = TRUE
      /\ predictionSource' = res.path
      /\ alert' = NoAlert
      /\ loading' = IF outcome = "ok" THEN FALSE ELSE loading
      /\ lastEvent' = Event("complete", c.specificModel, EmptyStr, outcome,
                            res.path, c.cancelled)
      /\ UNCHANGED <<apiVars, contactVars, formData, selectedService, specificModel>>

\* The rest of handleSubmit, run when the fetch of request i has ended.
Complete(i, outcome, data, r) ==
  LET c == pending[i]
      res == callPredictionAPI(c, outcome, data, r)
  IN  /\ pending' = [j \in 1..(Len(pending) - 1) |->
                       IF j < i THEN pending[j] ELSE pending[j + 1]]
      /\ IF res.rejected
         THEN /\ alert' = AlertFailed
              /\ UNCHANGED <<prediction, showChart, predictionSource>>
         ELSE /\ prediction' = res.value
              /\ showChart' = TRUE
              /\ predictionSource' = res.path
              /\ alert' = NoAlert
      /\ loading' = FALSE
      /\ lastEvent' = Event("complete", c.specificModel, EmptyStr, outcome,
                            res.path, c.cancelled)
      /\ UNCHANGED <<apiVars, contactVars, formData, selectedService, specificModel>>

\* Variant of ResetForm without setShowChart(false).
ResetForm_KeepsChart ==
  /\ formData' = EmptyForm
  /\ prediction' = Null
  /\ specificModel' = NullModel
  /\ predictionSource' = "none"
  /\ pending' = [i \in DOMAIN pending |-> [pending[i] EXCEPT !.cancelled = TRUE]]
  /\ alert' = NoAlert
  /\ lastEvent' = Event("reset", "", EmptyStr, "", "", FALSE)
  /\ UNCHANGED <<apiVars, contactVars, loading, selectedService, showChart>>

\* resetForm.  Requests awaiting their response are marked cancelled
\* (history only).
ResetForm ==
  /\ formData' = EmptyForm
  /\ prediction' = Null
  /\ showChart' = FALSE
  /\ specificModel' = NullModel
  /\ predictionSource' = "none"
  /\ pending' = [i \in DOMAIN pending |-> [pending[i] EXCEPT !.cancelled = TRUE]]
  /\ alert' = NoAlert
  /\ lastEvent' = Event("reset", "", EmptyStr, "", "", FALSE)
  /\ UNCHANGED <<apiVars, contactVars, loading, selectedService>>

Next ==
  \/ \E name \in InputNames : \E value \in PageValues(name) :
       HandleInputChange(name, value)
  \/ \E model \in ModelIds : SelectModel(model)
  \/ HandleSubmit
  \/ \E i \in DOMAIN pending : \E outcome \in Outcomes :
       \E data \in BodiesOf(outcome) : \E r \in DrawsOf(outcome) :
         Complete(i, outcome, data, r)
  \/ ResetForm

Spec == Init /\ [][Next]_vars

\* The fetch of some request awaiting its response ends, one way or another.
Settle ==
  \E i \in DOMAIN pending : \E outcome \in Outcomes :
    \E data \in BodiesOf(outcome) : \E r \in DrawsOf(outcome) :
      Complete(i, outcome, data, r)

\* The page, given that every fetch ends: the promise fetch returns is
\* settled by the browser, with a response or with a network error, and the
\* continuation of handleSubmit then runs.
FairSpec == Init /\ [][Next]_vars /\ WF_vars(Settle)

\* Variant of SubmitDisabled for a button without the disabled attribute.
SubmitDisabled_Never == FALSE

\* disabled={loading} of the submit button.
SubmitDisabled == loading

\* Requests the page lets await their response at the same time when it is
\* driven through its submit button.
MaxQueued == 2

\* A click on the submit button (or Enter in a field of the form): the
\* browser submits the form, and so calls handleSubmit, only while the
\* button is not disabled.
SubmitClick == ~SubmitDisabled /\ submit(MaxQueued)

\* The page driven through its controls.
PageNext ==
  \/ \E name \in InputNames : \E value \in PageValues(name) :
       HandleInputChange(name, value)
  \/ \E model \in ModelIds : SelectModel(model)
  \/ SubmitClick
  \/ Settle
  \/ ResetForm

PageSpec == Init /\ [][PageNext]_vars

\* The form alone: handleInputChange applied to any offered value, and
\* resetForm.
NextForm ==
  \/ \E name \in InputNames : \E value \in RawValues(name) :
       HandleInputChange(name, value)
  \/ ResetForm

FormSpec == Init /\ [][NextForm]_vars

(***************************************************************************)
(* callPredictionAPI on its own                                            *)
(***************************************************************************)
\* Forms handed to callPredictionAPI when it is examined as a function of
\* its inputs: the fields simulatePrediction reads, at and around the
\* thresholds of its tests, with and without a paymentHistory property.
DecideForms ==
  LET base == { [EmptyForm EXCEPT !.creditShort = cs, !.creditLong = cl, !.cph = c] :
                  cs \in {EmptyStr, StrOne, <<"6", "5", "0">>, <<"6", "5", "1">>},
                  cl \in {EmptyStr, StrMinusOne, <<"7", "0", "0">>},
                  c \in {StrOne, <<"0", ".", "7">>, <<"0", ".", "7", "1">>} }
  IN  base \cup { ("paymentHistory" :> ph) @@ fd :
                    fd \in base, ph \in {<<"excellent">>, <<"good">>} }

\* Values of Math.random() offered when the function is examined on its own.
DecideDraws(outcome) ==
  IF outcome = "ok" THEN {Num(0, 1)}
  ELSE RandomDraws \cup {Num(123, 1000), Num(1, 2)}

DecideInit ==
  /\ ApiInit
  /\ ContactInit
  /\ formData \in DecideForms
  /\ specificModel \in {"xgboost", "knn"}
  /\ selectedService = ModelService(specificModel)
  /\ prediction = Null
  /\ loading = FALSE
  /\ showChart = FALSE
  /\ pending = << >>
  /\ alert = NoAlert
  /\ lastEvent = Event("init", "", EmptyStr, "", "", FALSE)
  /\ predictionSource = "none"

\* One call of callPredictionAPI from the current render, run to its end.
\* lastEvent.name identifies the response body read, if one was read.
Decide(outcome, data, r) ==
  LET res == callPredictionAPI(Closure, outcome, data, r)
  IN  /\ prediction' = res.value
      /\ predictionSource' = res.path
      /\ lastEvent' = Event("decide",
                            IF outcome = "ok" THEN data.prediction ELSE "",
                            EmptyStr, outcome, res.path, FALSE)
      /\ UNCHANGED <<apiVars, contactVars, formData, loading, showChart, selectedService,
                     specificModel, pending, alert>>

DecideNext ==
  \E outcome \in Outcomes : \E data \in BodiesOf(outcome) :
    \E r \in DecideDraws(outcome) : Decide(outcome, data, r)

DecideSpec == DecideInit /\ [][DecideNext]_vars

(***************************************************************************)
(* callPredictionAPI on the forms handleInputChange can build              *)
(***************************************************************************)
\* Values offered for the fields simulatePrediction reads, or derives from:
\* permitted values, a credit score of 700, text that is no number.
FallbackValues(name) ==
  CASE name = "creditShort" -> {StrOne, StrMinusOne, <<"7", "0", "0">>}
    [] name = "cph" -> {StrOne, StrZero, <<"0", ".", "7", "1">>}
    [] name = "quarterFluctuation" ->
         {<<"8">>, <<"-", "8">>, <<"7", "0", "0">>, <<"a", "b", "c">>}
    [] OTHER -> {}

FallbackNext ==
  \/ \E name \in InputNames : \E value \in FallbackValues(name) :
       HandleInputChange(name, value)
  \/ ResetForm
  \/ DecideNext

FallbackSpec == Init /\ [][FallbackNext]_vars

(***************************************************************************)
(* The decision engine on its own                                          *)
(***************************************************************************)
\* Models that one request may select when the engine is examined on its
\* own.
MaxSelected == 3

\* What one model's invoke may produce: a failure, or one of the verdicts
\* of the specification's examples and of the README's example response.
InvocationOutcomes ==
  {InvocationFailure,
   Verdict("Very_Good", Num(90, 1)), Verdict("Very_Good", Num(80, 1)),
   Verdict("Normal", Num(70, 1)), Verdict("Normal", Num(95, 1)),
   Verdict("Very_Good", Num(965, 10)), Verdict("Very_Good", Num(935, 10)),
   Verdict("Very_Bad", Num(652, 10))}

\* The selected models of a request, each with what its invoke produces.
Invocations ==
  UNION { [selected -> InvocationOutcomes] :
            selected \in {S \in SUBSET ModelIds :
                            Cardinality(S) >= 1 /\ Cardinality(S) <= MaxSelected} }

\* A request has arrived; pending holds it with its models' outcomes.
EnsembleInit ==
  /\ ApiInit
  /\ ContactInit
  /\ pending \in {<<[invocations |-> inv]>> : inv \in Invocations}
  /\ formData = EmptyForm
  /\ prediction = Null
  /\ loading = FALSE
  /\ showChart = FALSE
  /\ selectedService = "loan"
  /\ specificModel = NullModel
  /\ alert = NoAlert
  /\ lastEvent = Event("init", "", EmptyStr, "", "", FALSE)
  /\ predictionSource = "none"

\* The engine answers the request: prediction holds the response body.
EnsembleDecide ==
  /\ prediction = Null
  /\ prediction' = decide(pending[1].invocations)
  /\ lastEvent' = Event("decide", "", EmptyStr,
                        IF "error" \in DOMAIN prediction' THEN "failed" ELSE "ok",
                        "", FALSE)
  /\ UNCHANGED <<apiVars, contactVars, formData, loading, showChart, selectedService, specificModel,
                 pending, alert, predictionSource>>

EnsembleNext == EnsembleDecide

EnsembleSpec == EnsembleInit /\ [][EnsembleNext]_vars

(***************************************************************************)
(* Properties of the form (checked under FormSpec)                         *)
(***************************************************************************)

\* C1: for every numeric quarterFluctuation q that handleInputChange has
\* accepted (q lies in [-8, 8]), creditLong and resultantFluctuation are
\* "-1" when q < 0, "0" when 0 <= q <= 3 and "1" when q > 3; the label
\* getStatusIndicator shows for quarterFluctuation names the same value.
C1_DerivedFollowsQuarter ==
  LET q == parseFloat(formData.quarterFluctuation)
      derived == IF q.num < 0 THEN StrMinusOne
                 ELSE IF q.num <= 3 * q.den THEN StrZero ELSE StrOne
      label == IF derived = StrOne THEN "Good (Credit-Long = 1)"
               ELSE IF derived = StrZero THEN "Normal (Credit-Long = 0)"
               ELSE "Poor (Credit-Long = -1)"
  IN  (formData.quarterFluctuation # EmptyStr /\ ~q.nan) =>
        /\ q.num >= (0 - 8) * q.den /\ q.num <= 8 * q.den
        /\ formData.creditLong = derived
        /\ formData.resultantFluctuation = derived
        /\ getStatusIndicator("quarterFluctuation", formData.quarterFluctuation) = label

\* A value just above 3 has been accepted and derived "1".
C1_Witness ==
  /\ formData.quarterFluctuation = <<"3", ".", "0", "1">>
  /\ formData.creditLong = StrOne
  /\ lastEvent.op = "input" /\ lastEvent.name = "quarterFluctuation"

\* C2: in every state reached by handleInputChange events and resetForm,
\* creditLong and resultantFluctuation are equal, are unset exactly when
\* quarterFluctuation is empty, and otherwise hold the value derived from
\* quarterFluctuation; an event for another field, and a rejected
\* quarterFluctuation event, leave them unchanged.
C2_DerivedOnlyFromQuarter ==
  [][ LET q == parseFloat(formData'.quarterFluctuation)
          unset == formData'.creditLong \in {EmptyStr, Undefined}
      IN  /\ formData'.creditLong = formData'.resultantFluctuation
          /\ unset <=> (formData'.quarterFluctuation = EmptyStr)
          /\ ~unset => /\ ~q.nan
                       /\ formData'.creditLong =
                            (IF q.num < 0 THEN StrMinusOne
                             ELSE IF q.num <= 3 * q.den THEN StrZero ELSE StrOne)
          /\ (lastEvent'.op = "input" /\
              (lastEvent'.name # "quarterFluctuation" \/ lastEvent'.outcome = "rejected"))
               => /\ formData'.creditLong = formData.creditLong
                  /\ formData'.resultantFluctuation = formData.resultantFluctuation
    ]_vars

C4_ContinuousRange ==
  [][ LET v == parseFloat(lastEvent'.value)
          lo == IF lastEvent'.name = "quarterFluctuation" THEN 0 - 8 ELSE 0 - 10
          hi == IF lastEvent'.name = "quarterFluctuation" THEN 8 ELSE 1
      IN  (/\ lastEvent'.op = "input"
           /\ lastEvent'.name \in {"aph", "atl", "quarterFluctuation"}
           /\ ~v.nan)
          => IF lo * v.den <= v.num /\ v.num <= hi * v.den
             THEN formData'[lastEvent'.name] = lastEvent'.value
             ELSE formData' = formData
    ]_vars

\* aph holds the endpoint "1.0" and an offered "1.01" has just been refused.
C4_Witness ==
  /\ lastEvent.op = "input" /\ lastEvent.name = "aph"
  /\ lastEvent.value = <<"1", ".", "0", "1">> /\ lastEvent.outcome = "rejected"
  /\ formData.aph = <<"1", ".", "0">>
  /\ formData.creditLong = StrMinusOne

\* C14: a non-empty value held by aph, atl or quarterFluctuation parses as
\* a real number and lies inside the field's interval ([-10, 1] for aph and
\* atl, [-8, 8] for quarterFluctuation): handleInputChange stores nothing
\* else into these fields.
C14_OnlyNumbersStored ==
  \A f \in {"aph", "atl", "quarterFluctuation"} :
    LET v == parseFloat(formData[f])
        lo == IF f = "quarterFluctuation" THEN 0 - 8 ELSE 0 - 10
        hi == IF f = "quarterFluctuation" THEN 8 ELSE 1
    IN  formData[f] # EmptyStr =>
          (~v.nan /\ lo * v.den <= v.num /\ v.num <= hi * v.den)

(***************************************************************************)
(* Properties of the page (checked under Spec)                             *)
(***************************************************************************)

\* C5: every model id sent in selectedModels belongs to the service sent as
\* serviceType (xgboost, random_forest: loan; logistic, knn: classification),
\* and a selected specificModel implies selectedService is its service.
C5_ModelsMatchService ==
  LET service == [xgboost |-> "loan", random_forest |-> "loan",
                  logistic |-> "classification", knn |-> "classification"]
  IN  /\ \A i \in DOMAIN pending :
           LET body == RequestBody(pending[i])
           IN  \A k \in DOMAIN body.selectedModels :
                 service[body.selectedModels[k]] = body.serviceType
      /\ specificModel # NullModel => selectedService = service[specificModel]

\* A knn request is still awaiting its response after the form was reset.
C5_Witness ==
  /\ Len(pending) > 0
  /\ RequestBody(pending[1]).selectedModels = <<"knn">>
  /\ RequestBody(pending[1]).serviceType = "classification"
  /\ specificModel = NullModel

\* C6: the fallback result is produced only when the backend could not be
\* reached; not when it answered, be it with an error status.
C6_FallbackOnlyWhenUnreachable ==
  (lastEvent.op = "complete" /\ lastEvent.path = "fallback")
    => lastEvent.outcome = "network_error"

\* C7: a displayed result that came from simulatePrediction carries a field
\* that results built from an API response do not have.
C7_FallbackTagged ==
  predictionSource = "fallback" =>
    \E k \in DOMAIN prediction : k \notin DOMAIN ApiResult([prediction |-> "Normal"])

\* C8: when a prediction request fails (error status, network error,
\* unreadable body) handleSubmit reports an error and shows no prediction
\* for it.
C8_FailureSurfaced ==
  (lastEvent.op = "complete" /\ lastEvent.outcome # "ok")
    => (alert = AlertFailed /\ predictionSource # "fallback")

\* C9: the result of a request that was cancelled while awaiting its
\* response (resetForm, or another model selected) is discarded: its
\* completion changes neither prediction nor showChart.
C9_CancelledDiscarded ==
  [][ (lastEvent'.op = "complete" /\ lastEvent'.cancelled)
        => (prediction' = prediction /\ showChart' = showChart) ]_vars

C13_OneRequestPerSubmit ==
  [][ /\ (lastEvent'.op = "submit" /\ lastEvent'.outcome = "sent")
            => /\ Len(pending') = Len(pending) + 1
               /\ SubSeq(pending', 1, Len(pending)) = pending
      /\ (lastEvent'.op = "submit" /\ lastEvent'.outcome = "refused")
            => pending' = pending
      /\ lastEvent'.op = "complete" => Len(pending') = Len(pending) - 1
      /\ lastEvent'.op \notin {"submit", "complete"} => Len(pending') = Len(pending)
    ]_vars

\* A request has ended with an error status and none is awaiting a response.
C13_Witness ==
  /\ lastEvent.op = "complete" /\ lastEvent.outcome = "http_error"
  /\ pending = << >>
  /\ predictionSource = "fallback"

\* C16: the confidence of every displayed result lies in the band the
\* README documents for its label: 85 to 95 for Very_Good, 70 to 85 for
\* Normal, 60 to 70 for Very_Bad.
C16_ConfidenceInDocumentedBand ==
  LET band == [Very_Good |-> <<85, 95>>, Normal |-> <<70, 85>>,
               Very_Bad |-> <<60, 70>>]
  IN  prediction # Null =>
        LET v == confidenceData(prediction, predictionSource).Confidence
            b == band[prediction.prediction]
        IN  Ge(v, b[1]) /\ Le(v, b[2])

\* C20: handleSubmit called while no model is selected sends no request
\* and leaves loading, prediction and showChart unchanged; every request
\* awaiting its response was sent with a model selected, its selectedModels
\* holds that one model identifier and is neither of the per-service
\* default lists.
C20_NoRequestWithoutModel ==
  [][ /\ (specificModel = NullModel /\ lastEvent'.op = "submit")
            => /\ pending' = pending
               /\ loading' = loading
               /\ prediction' = prediction
               /\ showChart' = showChart
      /\ \A i \in DOMAIN pending' :
           LET body == RequestBody(pending'[i])
           IN  /\ pending'[i].specificModel \in ModelIds
               /\ body.selectedModels = <<pending'[i].specificModel>>
               /\ body.selectedModels # selectedModels.loan
               /\ body.selectedModels # selectedModels.classification
    ]_vars

\* A request was sent with knn selected, resetForm cleared the selection,
\* and handleSubmit has just refused a second submit: the first request is
\* still the only one awaiting its response and loading is still set.
C20_Witness ==
  /\ lastEvent.op = "submit" /\ lastEvent.outcome = "refused"
  /\ specificModel = NullModel
  /\ alert = AlertSelectModel
  /\ Len(pending) = 1
  /\ RequestBody(pending[1]).selectedModels = <<"knn">>
  /\ loading

\* C21: a submit that handleSubmit accepts sets loading; whenever loading
\* is set it is later cleared, however the request ends; and loading is
\* never set while no request awaits its response.
C21_LoadingReturnsToFalse ==
  /\ [][ (lastEvent'.op = "submit" /\ lastEvent'.outcome = "sent") => loading' ]_vars
  /\ [](pending = << >> => ~loading)
  /\ (loading ~> ~loading)

\* A request that ended in a network error has cleared loading.
C21_Witness ==
  /\ lastEvent.op = "complete" /\ lastEvent.outcome = "network_error"
  /\ ~loading
  /\ pending = << >>

\* C23: callPredictionAPI resolves with a result for every outcome of the
\* fetch: the "Prediction failed" alert is never shown, and the end of
\* every request sets prediction and showChart.
C23_NeverRejects ==
  [][ /\ alert' # AlertFailed
      /\ lastEvent'.op = "complete" =>
           /\ prediction' # Null
           /\ "prediction" \in DOMAIN prediction'
           /\ showChart'
    ]_vars

\* A request whose response body was not JSON has ended with a result on
\* display.
C23_Witness ==
  /\ lastEvent.op = "complete" /\ lastEvent.outcome = "invalid_json"
  /\ ~lastEvent.cancelled
  /\ prediction # Null
  /\ showChart
  /\ alert = NoAlert

\* C24: whenever showChart is set, prediction is not null, so the chart
\* section (showChart && prediction) always has a prediction to hand to
\* PredictionChart.
C24_ChartHasPrediction ==
  showChart => (prediction # Null /\ "prediction" \in DOMAIN prediction)

\* The result of a request that ended after resetForm is charted.
C24_Witness ==
  /\ showChart
  /\ prediction # Null
  /\ specificModel = NullModel
  /\ lastEvent.op = "complete" /\ lastEvent.cancelled

\* C26: whenever the result panel shows its Key Factors list (a result is
\* displayed and its label is not Very_Bad), the factors object the list
\* reads its entries from is present in the result.
C26_FactorsPresent ==
  (prediction # Null /\ prediction.prediction # "Very_Bad") =>
    IF predictionSource = "fallback"
    THEN "creditScore" \in DOMAIN prediction.factors
    ELSE prediction.factors # Undefined

\* C27: resetForm empties every form field and clears prediction,
\* showChart and specificModel, leaving selectedService (and loading)
\* unchanged; a model button sets specificModel to its model and
\* selectedService to that model's service and clears prediction and
\* showChart, leaving every form field (and loading) unchanged.
C27_ResetAndSelectFrames ==
  [][ /\ lastEvent'.op = "reset" =>
           /\ \A f \in DOMAIN formData' : formData'[f] = EmptyStr
           /\ DOMAIN formData' = DOMAIN EmptyForm
           /\ prediction' = Null /\ ~showChart' /\ specificModel' = NullModel
           /\ selectedService' = selectedService /\ loading' = loading
      /\ lastEvent'.op = "select" =>
           /\ specificModel' = lastEvent'.name
           /\ selectedService' =
                (IF specificModel' \in {"xgboost", "random_forest"}
                 THEN "loan" ELSE "classification")
           /\ prediction' = Null /\ ~showChart'
           /\ formData' = formData /\ loading' = loading
    ]_vars

\* knn has just been selected over a form that holds values.
C27_Witness ==
  /\ lastEvent.op = "select" /\ specificModel = "knn"
  /\ selectedService = "classification"
  /\ formData.creditShort = StrOne /\ formData.creditLong = StrOne
  /\ prediction = Null

(***************************************************************************)
(* Properties of the page driven through its controls (PageSpec)           *)
(***************************************************************************)

\* C22: at most one request awaits its response at any time; while one
\* does, loading is set (which disables the submit button), and a request
\* is sent only when none awaits its response.
C22_AtMostOneInFlight ==
  [][ /\ Len(pending') <= 1
      /\ pending' # << >> => loading'
      /\ (lastEvent'.op = "submit" /\ lastEvent'.outcome = "sent") => pending = << >>
    ]_vars

\* A request is awaiting its response and a model has been selected again:
\* only the disabled button stands between the user and a second request.
C22_Witness ==
  /\ Len(pending) = 1
  /\ loading
  /\ specificModel # NullModel
  /\ lastEvent.op = "select"

(***************************************************************************)
(* Properties of callPredictionAPI (checked under DecideSpec)              *)
(***************************************************************************)

\* C11: the loan range of every result is determined by its label alone:
\* "Very_Good" goes with "$50,000 - $200,000", "Normal" with
\* "$10,000 - $50,000" and "Very_Bad" with "Not eligible", and the label is
\* one of the three; this holds of every result simulatePrediction builds
\* and of every result built from a documented API response.
C11_RangeFollowsLabel ==
  LET range == [Very_Good |-> "$50,000 - $200,000",
                Normal |-> "$10,000 - $50,000",
                Very_Bad |-> "Not eligible"]
  IN  prediction # Null =>
        /\ prediction.prediction \in DOMAIN range
        /\ prediction.loanRange = range[prediction.prediction]

\* simulatePrediction has returned a Normal result.
C11_Witness ==
  /\ predictionSource = "fallback"
  /\ prediction.prediction = "Normal"
  /\ prediction.loanRange = "$10,000 - $50,000"

\* C12: two calls of callPredictionAPI from the same render (same form,
\* same model selection) whose requests end the same way (same outcome of
\* the fetch, same response body) return the same prediction, confidence
\* and loan range, on the API path and on the fallback path alike.
C12_SameInputSameOutput ==
  [][ (/\ lastEvent.op = "decide" /\ lastEvent'.op = "decide"
       /\ lastEvent'.outcome = lastEvent.outcome
       /\ lastEvent'.name = lastEvent.name)
      => /\ prediction'.prediction = prediction.prediction
         /\ prediction'.confidence = prediction.confidence
         /\ prediction'.loanRange = prediction.loanRange
    ]_vars

\* C15: the confidence of every result lies in [0, 100] and has at most one
\* decimal place, so both values PredictionChart draws lie in [0, 100];
\* a confidence simulatePrediction built is written with exactly one
\* decimal digit, whatever the label.
C15_ConfidenceBounded ==
  prediction # Null =>
    LET chart == confidenceData(prediction, predictionSource)
        v == chart.Confidence
        s == prediction.confidence
    IN  /\ ~v.nan /\ v.num >= 0 /\ v.num <= 100 * v.den
        /\ (10 * v.num) % v.den = 0
        /\ Ge(chart.Uncertainty, 0) /\ Le(chart.Uncertainty, 100)
        /\ predictionSource = "fallback" =>
              /\ Len(s) \in {4, 5}
              /\ s[Len(s) - 1] = "."
              /\ \A i \in (1..Len(s)) \ {Len(s) - 1} : IsDigit(s[i])

\* simulatePrediction has returned Very_Good with the confidence rounded up
\* to "98.0".
C15_Witness ==
  /\ predictionSource = "fallback"
  /\ prediction.prediction = "Very_Good"
  /\ prediction.confidence = <<"9", "8", ".", "0">>

(***************************************************************************)
(* Properties of the fallback on reachable forms (FallbackSpec)            *)
(***************************************************************************)

\* C25: on every form that handleInputChange and resetForm can build,
\* simulatePrediction scores below 50, and every result it has returned is
\* Very_Bad with loan range "Not eligible".
C25_FallbackAlwaysVeryBad ==
  /\ simulatedScore(formData) < 50
  /\ predictionSource = "fallback" =>
       /\ prediction.prediction = "Very_Bad"
       /\ prediction.loanRange = "Not eligible"

\* The form with the highest reachable score (creditShort "1", creditLong
\* derived "1", cph "1": 15 points) has been given to simulatePrediction.
C25_Witness ==
  /\ formData.creditShort = StrOne /\ formData.creditLong = StrOne
  /\ formData.cph = StrOne
  /\ lastEvent.op = "decide" /\ lastEvent.path = "fallback"
  /\ prediction.prediction = "Very_Bad"
  /\ prediction.factors.debtRatio = "Good"

(***************************************************************************)
(* Properties of the decision engine (checked under EnsembleSpec)          *)
(***************************************************************************)

\* C17: in every response built from several verdicts the label is a most
\* frequent label of model_predictions and the confidence is the mean of
\* the confidences of exactly the verdicts carrying that label, to one
\* decimal place; the response to the verdicts of the README's example is
\* the response the README prints.
C17_ModeAndMeanOfAgreeing ==
  (prediction # Null /\ "error" \notin DOMAIN prediction) =>
    LET verdicts == prediction.model_predictions
        agree == {m \in DOMAIN verdicts :
                    verdicts[m].prediction = prediction.prediction}
        k == Cardinality(agree)
        c == prediction.confidence
        gap == 2 * sumTenths(verdicts, agree) * c.den - 20 * k * c.num
    IN  Cardinality(DOMAIN verdicts) > 1 =>
          /\ k > 0
          /\ \A l \in Labels :
               Cardinality({m \in DOMAIN verdicts : verdicts[m].prediction = l}) <= k
          /\ (10 * c.num) % c.den = 0
          /\ gap <= k * c.den /\ 0 - gap <= k * c.den
          /\ verdicts = ReadmeResponse.model_predictions =>
                /\ prediction.prediction = ReadmeResponse.prediction
                /\ c.num * ReadmeResponse.confidence.den
                     = ReadmeResponse.confidence.num * c.den
                /\ prediction.loan_range = ReadmeResponse.loan_range

\* C18: when several labels share the highest count, the response carries
\* the label of the model that comes first in the order xgboost,
\* random_forest, logistic, knn among those that gave a verdict, with the
\* mean confidence of the verdicts carrying that label (xgboost Very_Good
\* 90 against random_forest Normal 95 gives Very_Good 90.0); the order is
\* that of the accuracies of the model list, highest first.
C18_TieBrokenByRank ==
  /\ TieBreakOrder = <<"xgboost", "random_forest", "logistic", "knn">>
  /\ \A i, j \in DOMAIN TieBreakOrder :
       i < j => ModelAccuracy[TieBreakOrder[i]] > ModelAccuracy[TieBreakOrder[j]]
  /\ (prediction # Null /\ "error" \notin DOMAIN prediction) =>
       LET verdicts == prediction.model_predictions
           count == [l \in Labels |->
                       Cardinality({m \in DOMAIN verdicts : verdicts[m].prediction = l})]
           tied == {l \in Labels : \A other \in Labels : count[other] <= count[l]}
           rank == CHOOSE i \in DOMAIN TieBreakOrder :
                     /\ TieBreakOrder[i] \in DOMAIN verdicts
                     /\ \A j \in 1..(i - 1) : TieBreakOrder[j] \notin DOMAIN verdicts
           winner == verdicts[TieBreakOrder[rank]].prediction
           c == prediction.confidence
           gap == 2 * sumTenths(verdicts, agreeing(verdicts, winner)) * c.den
                    - 20 * count[winner] * c.num
       IN  Cardinality(tied) > 1 =>
             /\ prediction.prediction = winner
             /\ gap <= count[winner] * c.den /\ 0 - gap <= count[winner] * c.den
             /\ (10 * c.num) % c.den = 0

\* xgboost said Very_Good with 90, random_forest Normal with 95, and the
\* response is Very_Good with 90.0.
C18_Witness ==
  /\ prediction # Null /\ "error" \notin DOMAIN prediction
  /\ prediction.model_predictions =
       [xgboost |-> [prediction |-> "Very_Good", confidence |-> Num(90, 1)],
        random_forest |-> [prediction |-> "Normal", confidence |-> Num(95, 1)]]
  /\ prediction.prediction = "Very_Good"
  /\ prediction.confidence = Num(900, 10)

\* C19: the request fails, with AllModelsFailed, exactly when every selected
\* model failed; otherwise the response is the one the surviving models
\* alone would have produced, and model_predictions holds the verdicts of
\* exactly the surviving models, with no entry for a failed one.
C19_FailuresIsolated ==
  prediction # Null =>
    LET inv == pending[1].invocations
        survivors == {m \in DOMAIN inv : ~inv[m].failed}
    IN  IF survivors = {}
        THEN prediction = [error |-> "AllModelsFailed"]
        ELSE /\ "error" \notin DOMAIN prediction
             /\ DOMAIN prediction.model_predictions = survivors
             /\ \A m \in survivors :
                  /\ prediction.model_predictions[m].prediction = inv[m].prediction
                  /\ prediction.model_predictions[m].confidence = inv[m].confidence
             /\ prediction.prediction \in {inv[m].prediction : m \in survivors}
             /\ prediction = decide([m \in survivors |-> inv[m]])

\* xgboost failed, random_forest said Very_Good with 93.5, and the response
\* holds random_forest's verdict alone.
C19_Witness ==
  /\ prediction # Null /\ "error" \notin DOMAIN prediction
  /\ pending[1].invocations =
       [xgboost |-> InvocationFailure,
        random_forest |-> Verdict("Very_Good", Num(935, 10))]
  /\ DOMAIN prediction.model_predictions = {"random_forest"}
  /\ prediction.prediction = "Very_Good"
  /\ prediction.confidence = Num(935, 10)

(***************************************************************************)
(* ApiService and the Contact page on their own                            *)
(***************************************************************************)
ApiSpec == Init /\ [][ApiNext]_vars

ContactSpec == Init /\ [][ContactNext]_vars

\* A login whose response resolved with a token.
LoginWithToken(e) ==
  e.op = "settle" /\ e.method = "login" /\ e.outcome = "ok" /\ truthy(e.token)

\* C28: isAuthenticated() is true exactly when a token is stored; a login
\* whose response carries a token stores that token; a login that fails or
\* whose response has no token, and every other request, leaves the stored
\* token as it was; logout removes the token, also when none is stored;
\* makeRequest sends Authorization: Bearer <token> exactly when a token is
\* stored at the time of the call.
C28_TokenStore ==
  /\ [](isAuthenticated <=> authToken # JsNull)
  /\ [][ /\ LoginWithToken(apiEvent') => authToken' = apiEvent'.token
         /\ (apiEvent'.op = "settle" /\ ~LoginWithToken(apiEvent'))
              => authToken' = authToken
         /\ apiEvent'.op = "logout" => authToken' = JsNull
         /\ apiEvent'.op = "call" =>
              /\ authToken' = authToken
              /\ (apiEvent'.authorization # Undefined) <=> (authToken # JsNull)
              /\ authToken # JsNull => apiEvent'.authorization = Bearer \o authToken
       ]_vars

\* A login response without a token has just arrived while token "a" is
\* stored, and a request issued before that login stored "a" is still
\* awaiting its response without an Authorization header.
C28_Witness ==
  /\ apiEvent.op = "settle" /\ apiEvent.method = "login"
  /\ apiEvent.outcome = "ok" /\ apiEvent.token = Undefined
  /\ authToken = <<"a">>
  /\ isAuthenticated
  /\ \E i \in DOMAIN apiPending : apiPending[i].authorization = Undefined

\* C29: a status set by a submission is taken off display only by the
\* status timer that the same submission started, so a timer left over
\* from an earlier submission never clears the status of a later one; and
\* isSubmitting is false again once a submission has ended.
C29_StatusOutlivesOldTimers ==
  [][ /\ (submitStatus # NoStatus /\ submitStatus' = NoStatus)
           => (contactEvent'.op = "timer" /\ contactEvent'.id = statusOwner)
      /\ contactEvent'.op = "settle" => ~isSubmitting'
    ]_vars

====
